---- MODULE Spec2Model ----
(***************************************************************************)
(* DexieStorageProvider (packages/core/src/services/storage/               *)
(* dexieStorageProvider.ts): the key-value store with per-key locked,      *)
(* retried, degradable atomic updates.                                     *)
(*                                                                         *)
(* Every call of atomicUpdate is an async task.  A task runs without       *)
(* interruption between two awaits; an await of a promise resumes the task *)
(* from the microtask queue, in the order the awaits were registered on    *)
(* the promise; a backing-store request or a timer resumes it from a       *)
(* macrotask, which runs only when the microtask queue is empty.  The      *)
(* Dexie table is one IndexedDB object store: its requests (a read-write   *)
(* transaction, a plain get, a plain put) are served one at a time in the  *)
(* order they were placed, and a transaction whose body fails leaves the   *)
(* table unchanged.                                                        *)
(***************************************************************************)
EXTENDS Integers, Sequences, FiniteSets, TLC

\* ---------------------------------------------------------------- bounds
NumCalls == 3

\* the plain operations the caller makes and the length of a batch; the calls
\* of atomicUpdate and the plain operations made while they run
MaxOps == 3

MaxBatch == 2

MixedCalls == 1

MixedOps == 1

\* ------------------------------------------------------------- constants
maxRetries == 3

Keys == {"a", "b"}

Calls == 1..NumCalls

UpdateFns == {"inc", "throw"}

NoLock == 0

Null == -1

RECURSIVE Pow(_, _)
Pow(b, e) == IF e = 0 THEN 1 ELSE b * Pow(b, e - 1)

\* the numbers the table can come to hold: the initial one, incremented by every call
MaxVal == 1 + NumCalls

VARIABLES
  dbOpened,      \* state of the promise made by db.open() in the constructor
  initWaiters,   \* calls suspended in initialize() on the pending dbOpened
  store,         \* the table db.storage: key -> value, for the keys that have a record
  keyLocks,      \* the Map keyLocks: key -> the call whose lockPromise is the entry
  lockPromise,   \* per call: the promise returned by _performAtomicUpdateWithRetry
  reactions,     \* per call: the continuations awaiting its lockPromise, in order
  microtasks,    \* the microtask queue: continuations ready to resume
  ioQueue,       \* calls with a request placed on the object store, in order
  pc,            \* per call: where the call is suspended
  key,           \* per call: the argument key
  fn,            \* per call: the argument updateFn
  awaited,       \* per call: the owner of the lock entry awaited at line 143
  attempt,       \* per call: the loop variable attempt
  lastError,     \* per call: the variable lastError
  txnError,      \* per call: the name of the error the latest transaction raised
  timer,         \* per call: the delay of its pending setTimeout, 0 if none
  currentRecord, \* per call: the record read by the latest read, <<>> if none
  newValue,      \* per call: the serialized value of the latest put
  result,        \* per call: how atomicUpdate settled for its caller
  applied,       \* history: the calls whose write reached the table, in order
  initStore,     \* history: the table as it was at construction
  op,            \* the caller's plain operation: its kind, position, key, value
  opBatch,       \* the operation list of batchUpdate
  opData,        \* the mapping given to importAll
  opResult,      \* how the plain operation settled for its caller
  got,           \* what getItem returned: <<value>>, or <<>> for null
  exported,      \* what the latest exportAll returned
  info,          \* what getStorageInfo has read so far, and what it returns
  opsDone,       \* the number of plain operations called so far
  rt,            \* history: how far an export, clear, import sequence has come
  snap           \* history: the table as the export of that sequence read it

\* the state of the plain operations
facade == <<op, opBatch, opData, opResult, got, exported, info, opsDone, rt, snap>>

vars == <<dbOpened, initWaiters, store, keyLocks, lockPromise, reactions,
          microtasks, ioQueue, pc, key, fn, awaited, attempt, lastError, txnError,
          timer, currentRecord, newValue, result, applied, initStore, facade>>

\* ------------------------------------------------------------ the codec
\* JSON.stringify of a number
JSONstringify(n) == ToString(n)

\* JSON.parse accepts the text of a number and throws SyntaxError otherwise
JSONparses(s) == \E n \in 0..MaxVal : ToString(n) = s

JSONparse(s) == CHOOSE n \in 0..MaxVal : ToString(n) = s

\* ---------------------------------------------------------------- errors
NoError == [name |-> "none", message |-> "", call |-> 0, attempt |-> 0]

MkError(n, m, t, a) == [name |-> n, message |-> m, call |-> t, attempt |-> a]

isError(e) == e.name # "none"

\* the promise states
Unmade == [state |-> "unmade", reason |-> NoError]

Pending == [state |-> "pending", reason |-> NoError]

Fulfilled == [state |-> "fulfilled", reason |-> NoError]

Rejected(e) == [state |-> "rejected", reason |-> e]

\* ------------------------------------------------------------- the table
TableGet(k) == IF k \in DOMAIN store THEN <<store[k]>> ELSE <<>>

TablePut(k, v) == [x \in DOMAIN store \cup {k} |-> IF x = k THEN v ELSE store[x]]

\* ------------------------------------------------------------ updateFn
\* "inc" is x => (x ?? 0) + 1; "throw" is a function that throws
UpdateFnThrows(f) == f = "throw"

UpdateFn(f, x) == (IF x = Null THEN 0 ELSE x) + 1

\* currentRecord?.value ? JSON.parse(currentRecord.value) : null
\* (an empty string is falsy)
ReadThrows(rec) == rec # <<>> /\ rec[1] # "" /\ ~JSONparses(rec[1])

CurrentValue(rec) == IF rec = <<>> \/ rec[1] = "" THEN Null ELSE JSONparse(rec[1])

\* ------------------------------------------------------------------ Init
\* the table holds no record, or one record under "a": an empty string, a text
\* that is no JSON, or the text of a number
InitValues == {"", "x", "1"}

InitRest ==
  /\ dbOpened = "pending"
  /\ initWaiters = <<>>
  /\ keyLocks = [k \in Keys |-> NoLock]
  /\ lockPromise = [t \in Calls |-> Unmade]
  /\ reactions = [t \in Calls |-> <<>>]
  /\ microtasks = <<>>
  /\ ioQueue = <<>>
  /\ pc = [t \in Calls |-> "idle"]
  /\ key = [t \in Calls |-> "a"]
  /\ fn = [t \in Calls |-> "inc"]
  /\ awaited = [t \in Calls |-> NoLock]
  /\ attempt = [t \in Calls |-> 0]
  /\ lastError = [t \in Calls |-> NoError]
  /\ txnError = [t \in Calls |-> "none"]
  /\ timer = [t \in Calls |-> 0]
  /\ currentRecord = [t \in Calls |-> <<>>]
  /\ newValue = [t \in Calls |-> ""]
  /\ result = [t \in Calls |-> Unmade]
  /\ applied = <<>>
  /\ initStore = store
  /\ op = [kind |-> "none", pc |-> "idle", key |-> "a", value |-> ""]
  /\ opBatch = <<>>
  /\ opData = <<>>
  /\ opResult = Unmade
  /\ got = <<>>
  /\ exported = <<>>
  /\ info = [itemCount |-> 0, estimatedSize |-> 0, lastUpdated |-> Null]
  /\ opsDone = 0
  /\ rt = "none"
  /\ snap = <<>>

Init ==
  /\ \E present \in {{}, {"a"}} : store \in [present -> InitValues]
  /\ InitRest

\* ------------------------------------------------ continuations and steps
Job(t, kind) == [call |-> t, kind |-> kind]

BodyStates == {"txn", "backoff", "sget", "sput"}

\* the constructor's db.open() settles; the calls suspended in initialize()
\* resume in the order they awaited
OpenSettles ==
  /\ dbOpened = "pending"
  /\ microtasks = <<>>
  /\ \E outcome \in {"fulfilled", "rejected"} : dbOpened' = outcome
  /\ microtasks' = [i \in 1..Len(initWaiters) |-> Job(initWaiters[i], "afterInit")]
  /\ initWaiters' = <<>>
  /\ UNCHANGED <<store, keyLocks, lockPromise, reactions, ioQueue, pc, key, fn,
                 awaited, attempt, lastError, txnError, timer, currentRecord,
                 newValue, result, applied, initStore>>
  /\ UNCHANGED facade

\* a caller calls atomicUpdate(k, f) (or updateData, which forwards to it):
\* the call runs to `await this.initialize()`.  Calls are numbered in the
\* order they are made.
atomicUpdate(t, k, f) ==
  /\ pc[t] = "idle"
  /\ \A u \in Calls : u < t => pc[u] # "idle"
  /\ pc' = [pc EXCEPT ![t] = "init"]
  /\ key' = [key EXCEPT ![t] = k]
  /\ fn' = [fn EXCEPT ![t] = f]
  /\ IF dbOpened = "pending"
       THEN /\ initWaiters' = Append(initWaiters, t)
            /\ UNCHANGED microtasks
       ELSE /\ microtasks' = Append(microtasks, Job(t, "afterInit"))
            /\ UNCHANGED initWaiters
  /\ UNCHANGED <<dbOpened, store, keyLocks, lockPromise, reactions, ioQueue,
                 awaited, attempt, lastError, txnError, timer, currentRecord,
                 newValue, result, applied, initStore>>
  /\ UNCHANGED facade

\* lines 146-150: the call starts _performAtomicUpdateWithRetry, which runs to
\* the transaction request of attempt 1, stores the promise in keyLocks and
\* awaits it
StartBody(t) ==
  /\ lockPromise' = [lockPromise EXCEPT ![t] = Pending]
  /\ keyLocks' = [keyLocks EXCEPT ![key[t]] = t]
  /\ reactions' = [reactions EXCEPT ![t] = <<Job(t, "finally")>>]
  /\ attempt' = [attempt EXCEPT ![t] = 1]
  /\ ioQueue' = Append(ioQueue, t)
  /\ pc' = [pc EXCEPT ![t] = "txn"]
  /\ UNCHANGED result

\* a plausible slip: the catch of the constructor logs and does not rethrow
InitializeRaises_swallowed == FALSE

\* lines 47-51, 57-59: `await this.dbOpened` throws the error of db.open()
InitializeRaises == dbOpened = "rejected"

OpenError == MkError("OpenFailedError", "open", 0, 0)

\* atomicUpdate settles for its caller
Return(t, p) ==
  /\ pc' = [pc EXCEPT ![t] = "done"]
  /\ result' = [result EXCEPT ![t] = p]

\* a plausible slip: the lock key leaves the key out, one entry serves all keys
EntryOf_oneLock(t) ==
  IF \E k \in Keys : keyLocks[k] # NoLock
    THEN keyLocks[CHOOSE k \in Keys : keyLocks[k] # NoLock]
    ELSE NoLock

\* lines 141-143: the entry of keyLocks under `atomic_${key}`
EntryOf(t) == keyLocks[key[t]]

\* lines 142-144: the test of keyLocks.has, and the await of the entry
AwaitsEntry(t) == EntryOf(t) # NoLock

\* line 143 resumes: does the await throw?
EntryThrows(t) == lockPromise[awaited[t]].state = "rejected"

\* a plausible slip: the delete follows the await outside a finally, so a
\* rejected lockPromise skips it
ReleasedLocks_skippedOnThrow(t) ==
  IF lockPromise[t].state = "rejected" THEN keyLocks
  ELSE [keyLocks EXCEPT ![key[t]] = NoLock]

\* line 152
ReleasedLocks(t) == [keyLocks EXCEPT ![key[t]] = NoLock]

\* the continuation at the head of the microtask queue runs to its next await
RunMicrotask ==
  /\ microtasks # <<>>
  /\ Head(microtasks).call \in Calls
  /\ LET t == Head(microtasks).call
         kind == Head(microtasks).kind
         rest == Tail(microtasks)
     IN  CASE kind = "afterInit" ->
                \* line 138 resumes; lines 141-147
                IF InitializeRaises
                  THEN /\ Return(t, Rejected(OpenError))
                       /\ microtasks' = rest
                       /\ UNCHANGED <<keyLocks, lockPromise, reactions, attempt,
                                      ioQueue, awaited>>
                  ELSE IF AwaitsEntry(t)
                         THEN LET o == EntryOf(t)
                              IN  /\ awaited' = [awaited EXCEPT ![t] = o]
                                  /\ pc' = [pc EXCEPT ![t] = "lockwait"]
                                  /\ IF lockPromise[o].state = "pending"
                                       THEN /\ reactions' = [reactions EXCEPT ![o] =
                                                  Append(@, Job(t, "afterLock"))]
                                            /\ microtasks' = rest
                                       ELSE /\ microtasks' =
                                                  Append(rest, Job(t, "afterLock"))
                                            /\ UNCHANGED reactions
                                  /\ UNCHANGED <<keyLocks, lockPromise, attempt,
                                                 ioQueue, result>>
                         ELSE /\ StartBody(t)
                              /\ microtasks' = rest
                              /\ UNCHANGED awaited
            [] kind = "afterLock" ->
                \* line 143 resumes: a rejected entry throws out of atomicUpdate
                /\ microtasks' = rest
                /\ IF EntryThrows(t)
                     THEN /\ Return(t, lockPromise[awaited[t]])
                          /\ UNCHANGED <<keyLocks, lockPromise, reactions, attempt,
                                         ioQueue>>
                     ELSE StartBody(t)
                /\ UNCHANGED awaited
            [] kind = "finally" ->
                \* line 150 resumes; line 152
                /\ microtasks' = rest
                /\ keyLocks' = ReleasedLocks(t)
                /\ Return(t, lockPromise[t])
                /\ UNCHANGED <<lockPromise, reactions, attempt, ioQueue, awaited>>
  /\ UNCHANGED <<dbOpened, initWaiters, store, key, fn, lastError, txnError,
                 timer, currentRecord, newValue, applied, initStore>>
  /\ UNCHANGED facade

\* --------------------------------------------- _performAtomicUpdate
\* What the transaction of one attempt raises, by the step that fails first:
\* the get, JSON.parse, updateFn, the put, or the commit; "none" if it commits.
TxnRaises(t, engine) ==
  LET rec == TableGet(key[t])
  IN  IF engine = "get" THEN "DatabaseError"
      ELSE IF ReadThrows(rec) THEN "SyntaxError"
      ELSE IF UpdateFnThrows(fn[t]) THEN "UpdateFnError"
      ELSE IF engine = "put" THEN "DatabaseError"
      ELSE IF engine = "commit" THEN "PrematureCommitError"
      ELSE "none"

\* lines 260-270: the serialized value the transaction puts
TxnNewValue(f, rec) == JSONstringify(UpdateFn(f, CurrentValue(rec)))

\* lines 279-288: the catch of _performAtomicUpdate throws a new Error, whose
\* name is "Error" whatever the name of the error it caught
WrapAtomic(raw, t, a) ==
  IF raw = "PrematureCommitError"
    THEN MkError("Error", "Database transaction error", t, a)
    ELSE MkError("Error", "Failed to perform atomic update", t, a)

\* a plausible slip: the simple update applies updateFn to null, not to the read
SimpleNewValue_ignoresRead(f, rec) == JSONstringify(UpdateFn(f, Null))

\* lines 228-238: the serialized value the simple update puts
SimpleNewValue(f, rec) == JSONstringify(UpdateFn(f, CurrentValue(rec)))

\* line 243
WrapSimple(t) == MkError("Error", "Failed to perform simple update", t, 0)

\* ------------------------------------- _performAtomicUpdateWithRetry
Min(a, b) == IF a < b THEN a ELSE b

\* line 195
Delay(a) == Min(100 * Pow(2, a - 1), 1000)

\* a plausible slip: the ceiling is tested one attempt late
AfterFailure_lateCeiling(e, a) ==
  IF a = maxRetries + 1 THEN "fallback" ELSE "next"

\* lines 194-211: what the catch of the loop does with the error of attempt a
AfterFailure(e, a) ==
  IF isError(e) /\ e.name = "PrematureCommitError" /\ a < maxRetries
    THEN "backoff"
    ELSE IF a = maxRetries THEN "fallback" ELSE "next"

\* a plausible slip: the fallback's own error is thrown
FallbackRaises_fallbackError(last, fallbackError) == fallbackError

\* line 209: what is thrown when the simple update failed too
FallbackRaises(last, fallbackError) == last

\* a plausible slip: no return after the fallback, line 215 throws lastError
AfterFallbackOk_fallsThrough(last) == Rejected(last)

\* lines 204-206: the simple update succeeded, the function returns
AfterFallbackOk(last) == Fulfilled

\* the promise of _performAtomicUpdateWithRetry settles: the continuations
\* awaiting it are queued in the order they were registered
Settle(t, p) ==
  /\ lockPromise' = [lockPromise EXCEPT ![t] = p]
  /\ microtasks' = microtasks \o reactions[t]
  /\ reactions' = [reactions EXCEPT ![t] = <<>>]
  /\ pc' = [pc EXCEPT ![t] = "settled"]

\* lines 185-213: the loop resumes from its await, of the transaction of the
\* current attempt or of the backoff timer, and runs to its next await.
\* (Line 215 is not reached: attempt maxRetries returns or throws at 188-209.)
RetryLoopStep(t) ==
  /\ microtasks = <<>>
  /\ pc[t] \in {"txn", "backoff"}
  /\ pc[t] = "txn" => ioQueue # <<>> /\ Head(ioQueue) = t
  /\ IF pc[t] = "backoff"
       THEN \* lines 196-197, then line 187 of the next attempt
            /\ attempt' = [attempt EXCEPT ![t] = @ + 1]
            /\ pc' = [pc EXCEPT ![t] = "txn"]
            /\ ioQueue' = Append(ioQueue, t)
            /\ timer' = [timer EXCEPT ![t] = 0]
            /\ UNCHANGED <<store, lockPromise, microtasks, reactions, lastError,
                           txnError, currentRecord, newValue, applied>>
       ELSE \E engine \in {"ok", "get", "put", "commit"} :
              LET raw == TxnRaises(t, engine)
                  rec == TableGet(key[t])
                  a == attempt[t]
                  e == WrapAtomic(raw, t, a)
                  out == TxnNewValue(fn[t], rec)
              IN  /\ txnError' = [txnError EXCEPT ![t] = raw]
                  /\ IF raw = "none"
                       THEN \* lines 259-272 commit; line 188
                            /\ store' = TablePut(key[t], out)
                            /\ currentRecord' = [currentRecord EXCEPT ![t] = rec]
                            /\ newValue' = [newValue EXCEPT ![t] = out]
                            /\ applied' = Append(applied, t)
                            /\ ioQueue' = Tail(ioQueue)
                            /\ Settle(t, Fulfilled)
                            /\ UNCHANGED <<attempt, lastError, timer>>
                       ELSE \* the transaction rolled back; lines 189-211
                            /\ lastError' = [lastError EXCEPT ![t] = e]
                            /\ UNCHANGED <<store, currentRecord, newValue, applied,
                                           lockPromise, microtasks, reactions>>
                            /\ CASE AfterFailure(e, a) = "backoff" ->
                                      /\ pc' = [pc EXCEPT ![t] = "backoff"]
                                      /\ timer' = [timer EXCEPT ![t] = Delay(a)]
                                      /\ ioQueue' = Tail(ioQueue)
                                      /\ UNCHANGED attempt
                                 [] AfterFailure(e, a) = "fallback" ->
                                      /\ pc' = [pc EXCEPT ![t] = "sget"]
                                      /\ ioQueue' = Append(Tail(ioQueue), t)
                                      /\ UNCHANGED <<attempt, timer>>
                                 [] AfterFailure(e, a) = "next" ->
                                      /\ pc' = [pc EXCEPT ![t] = "txn"]
                                      /\ ioQueue' = Append(Tail(ioQueue), t)
                                      /\ attempt' = [attempt EXCEPT ![t] = a + 1]
                                      /\ UNCHANGED timer
  /\ UNCHANGED <<dbOpened, initWaiters, keyLocks, key, fn, awaited, result,
                 initStore>>
  /\ UNCHANGED facade

\* ------------------------------------------------ _performSimpleUpdate
\* lines 227-236: the plain get returns (or fails); JSON.parse and updateFn
\* run; the plain put is placed
SimpleGet(t) ==
  /\ microtasks = <<>>
  /\ pc[t] = "sget"
  /\ ioQueue # <<>> /\ Head(ioQueue) = t
  /\ \E engine \in {"ok", "get"} :
       LET rec == TableGet(key[t])
       IN  IF engine = "get" \/ ReadThrows(rec) \/ UpdateFnThrows(fn[t])
             THEN \* lines 241-243, 207-209
                  /\ ioQueue' = Tail(ioQueue)
                  /\ Settle(t, Rejected(FallbackRaises(lastError[t], WrapSimple(t))))
                  /\ UNCHANGED <<currentRecord, newValue>>
             ELSE /\ currentRecord' = [currentRecord EXCEPT ![t] = rec]
                  /\ newValue' = [newValue EXCEPT ![t] = SimpleNewValue(fn[t], rec)]
                  /\ pc' = [pc EXCEPT ![t] = "sput"]
                  /\ ioQueue' = Append(Tail(ioQueue), t)
                  /\ UNCHANGED <<lockPromise, microtasks, reactions>>
  /\ UNCHANGED <<dbOpened, initWaiters, store, keyLocks, key, fn, awaited,
                 attempt, lastError, txnError, timer, result, applied, initStore>>
  /\ UNCHANGED facade

\* lines 236-240 return: the plain put wrote the record, or failed
SimplePut(t) ==
  /\ microtasks = <<>>
  /\ pc[t] = "sput"
  /\ ioQueue # <<>> /\ Head(ioQueue) = t
  /\ ioQueue' = Tail(ioQueue)
  /\ \E engine \in {"ok", "put"} :
       IF engine = "ok"
         THEN \* lines 205-206
              /\ store' = TablePut(key[t], newValue[t])
              /\ applied' = Append(applied, t)
              /\ Settle(t, AfterFallbackOk(lastError[t]))
         ELSE /\ Settle(t, Rejected(FallbackRaises(lastError[t], WrapSimple(t))))
              /\ UNCHANGED <<store, applied>>
  /\ UNCHANGED <<dbOpened, initWaiters, keyLocks, key, fn, awaited, attempt,
                 lastError, txnError, timer, currentRecord, newValue, result,
                 initStore>>
  /\ UNCHANGED facade

\* ------------------------------------------------- the plain operations
\* the caller makes its plain operations one after the other; Client names
\* the one in progress in the queues of waiters, microtasks and requests
Client == NumCalls + 1

\* "__proto__" is a key like another to the table, not to a JavaScript object
PlainKeys == Keys \cup {"__proto__"}

PlainValues == {"v"}

PlainError(m) == MkError("Error", m, Client, 0)

\* the table as a value: get, put, delete, bulkPut, bulkDelete, toArray
GetIn(tbl, k) == IF k \in DOMAIN tbl THEN <<tbl[k]>> ELSE <<>>

PutIn(tbl, k, v) == [x \in DOMAIN tbl \cup {k} |-> IF x = k THEN v ELSE tbl[x]]

DeleteIn(tbl, k) == [x \in DOMAIN tbl \ {k} |-> tbl[x]]

RECURSIVE bulkPut(_, _)
bulkPut(tbl, records) ==
  IF records = <<>> THEN tbl
  ELSE bulkPut(PutIn(tbl, Head(records).key, Head(records).value), Tail(records))

RECURSIVE bulkDelete(_, _)
bulkDelete(tbl, ks) ==
  IF ks = <<>> THEN tbl ELSE bulkDelete(DeleteIn(tbl, Head(ks)), Tail(ks))

\* the primary keys in the order of the index
KeyOrder == <<"__proto__", "a", "b">>

toArray(tbl) ==
  LET present == SelectSeq(KeyOrder, LAMBDA k : k \in DOMAIN tbl)
  IN  [i \in 1..Len(present) |-> [key |-> present[i], value |-> tbl[present[i]]]]

\* ---- batchUpdate
\* an operation of the list; value is <<v>>, or <<>> when the field is left out
Operation(o, k, v) == [operation |-> o, key |-> k, value |-> v]

BatchOps ==
  {Operation("set", "a", <<"v">>), Operation("remove", "a", <<>>),
   Operation("remove", "b", <<>>), Operation("set", "b", <<>>)}

Batches == UNION {[1..n -> BatchOps] : n \in 0..MaxBatch}

\* lines 303-316: the loop sorts the list into updates and deletions
updates(operations) ==
  LET sets == SelectSeq(operations,
                        LAMBDA o : o.operation = "set" /\ o.value # <<>>)
  IN  [i \in 1..Len(sets) |-> [key |-> sets[i].key, value |-> sets[i].value[1]]]

deletions(operations) ==
  LET removes == SelectSeq(operations, LAMBDA o : o.operation = "remove")
  IN  [i \in 1..Len(removes) |-> removes[i].key]

\* lines 319-326: what makes the transaction fail
BatchRaises(operations, engine) ==
  \/ engine = "bulkPut" /\ updates(operations) # <<>>
  \/ engine = "bulkDelete" /\ deletions(operations) # <<>>
  \/ engine = "commit"

\* a plausible slip: the two bulk calls run outside a transaction, the puts
\* stay when the delete fails
BatchTable_noRollback(tbl, operations, engine) ==
  IF engine = "bulkDelete" /\ deletions(operations) # <<>>
    THEN bulkPut(tbl, updates(operations))
    ELSE IF BatchRaises(operations, engine) THEN tbl
    ELSE bulkDelete(bulkPut(tbl, updates(operations)), deletions(operations))

\* lines 302-327: the table after the transaction: bulkPut of the updates, then
\* bulkDelete of the deletions; the table as it was if the transaction fails
BatchTable(tbl, operations, engine) ==
  IF BatchRaises(operations, engine) THEN tbl
  ELSE bulkDelete(bulkPut(tbl, updates(operations)), deletions(operations))

\* ---- exportAll, importAll
\* result[record.key] = record.value on a plain object: the assignment to
\* "__proto__" calls the setter of Object.prototype, which ignores a string
ObjectSet(obj, k, v) == IF k = "__proto__" THEN obj ELSE PutIn(obj, k, v)

\* lines 379-385
RECURSIVE ExportResult(_, _)
ExportResult(obj, allRecords) ==
  IF allRecords = <<>> THEN obj
  ELSE ExportResult(ObjectSet(obj, Head(allRecords).key, Head(allRecords).value),
                    Tail(allRecords))

\* lines 400-404: Object.entries(data) mapped to records
ImportRecords(data) == toArray(data)

\* ---- getStorageInfo
Zeros == [itemCount |-> 0, estimatedSize |-> 0, lastUpdated |-> Null]

count(tbl) == Cardinality(DOMAIN tbl)

\* lines 346-348, 360: the timestamp of the latest record, null if there is
\* none; the model keeps no clock, 1 stands for a timestamp
LastUpdated(tbl) == IF DOMAIN tbl = {} THEN Null ELSE 1

\* lines 352-355
RECURSIVE EstimatedSize(_)
EstimatedSize(allRecords) ==
  IF allRecords = <<>> THEN 0
  ELSE Len(Head(allRecords).value) + EstimatedSize(Tail(allRecords))

\* ---- the calls
\* a plausible slip: a plain write deletes the lock entry of its key
LocksAfterPlain_released(k) ==
  IF k \in Keys THEN [keyLocks EXCEPT ![k] = NoLock] ELSE keyLocks

\* lines 72-128, 294-411: no plain operation reads or writes keyLocks
LocksAfterPlain(k) == keyLocks

\* the variables of atomicUpdate other than the lock table
atomic == <<lockPromise, reactions, pc, key, fn, awaited, attempt, lastError,
            txnError, timer, currentRecord, newValue, result, applied>>

\* a plain operation is called and runs to `await this.initialize()`
Call(kind, k, v, operations, data) ==
  /\ op.pc \in {"idle", "done"}
  /\ opsDone < MaxOps
  /\ opsDone' = opsDone + 1
  /\ op' = [kind |-> kind, pc |-> "init", key |-> k, value |-> v]
  /\ opBatch' = operations
  /\ opData' = data
  /\ opResult' = Pending
  /\ got' = <<>>
  /\ info' = Zeros
  /\ IF dbOpened = "pending"
       THEN /\ initWaiters' = Append(initWaiters, Client)
            /\ UNCHANGED microtasks
       ELSE /\ microtasks' = Append(microtasks, Job(Client, "afterInit"))
            /\ UNCHANGED initWaiters
  /\ UNCHANGED <<dbOpened, store, keyLocks, ioQueue, initStore, exported, rt,
                 snap, atomic>>

getItem(k) == Call("getItem", k, "", <<>>, <<>>)

setItem(k, v) == Call("setItem", k, v, <<>>, <<>>)

removeItem(k) == Call("removeItem", k, "", <<>>, <<>>)

clearAll == Call("clearAll", "a", "", <<>>, <<>>)

batchUpdate(operations) == Call("batchUpdate", "a", "", operations, <<>>)

getStorageInfo == Call("getStorageInfo", "a", "", <<>>, <<>>)

exportAll == Call("exportAll", "a", "", <<>>, <<>>)

importAll(data) == Call("importAll", "a", "", <<>>, data)

\* `await this.initialize()` resumes: the operation throws the error of the
\* open, or makes its first request to the table
PlainMicrotask ==
  /\ microtasks # <<>>
  /\ Head(microtasks).call = Client
  /\ microtasks' = Tail(microtasks)
  /\ IF InitializeRaises
       THEN /\ op' = [op EXCEPT !.pc = "done"]
            /\ opResult' = Rejected(OpenError)
            /\ UNCHANGED ioQueue
       ELSE /\ op' = [op EXCEPT !.pc = "io"]
            /\ ioQueue' = Append(ioQueue, Client)
            /\ UNCHANGED opResult
  /\ keyLocks' = LocksAfterPlain(op.key)
  /\ UNCHANGED <<dbOpened, initWaiters, store, initStore, opBatch, opData, got,
                 exported, info, opsDone, rt, snap, atomic>>

\* the ways the table can answer a request of the operation
EnginesOf(kind) ==
  IF kind = "batchUpdate" THEN {"ok", "bulkPut", "bulkDelete", "commit"}
  ELSE {"ok", "fail"}

\* the operation returns or throws
Finish(p) ==
  /\ op' = [op EXCEPT !.pc = "done"]
  /\ opResult' = p
  /\ ioQueue' = Tail(ioQueue)

\* a write that is no step of an export, clear, import sequence ends it
Interrupts ==
  /\ rt' = "none"
  /\ snap' = <<>>

\* the table answers the request of the plain operation, which runs to its
\* next request or to its end
PlainRequest ==
  /\ microtasks = <<>>
  /\ ioQueue # <<>> /\ Head(ioQueue) = Client
  /\ \E engine \in EnginesOf(op.kind) :
       LET ok == engine = "ok"
       IN  CASE op.kind = "getItem" ->
                  \* lines 75-81
                  /\ Finish(IF ok THEN Fulfilled
                            ELSE Rejected(PlainError("Failed to get item")))
                  /\ got' = IF ok THEN GetIn(store, op.key) ELSE <<>>
                  /\ UNCHANGED <<store, exported, info, rt, snap>>
             [] op.kind = "setItem" ->
                  \* lines 90-99
                  /\ Finish(IF ok THEN Fulfilled
                            ELSE Rejected(PlainError("Failed to set item")))
                  /\ IF ok THEN /\ store' = PutIn(store, op.key, op.value)
                                /\ Interrupts
                           ELSE UNCHANGED <<store, rt, snap>>
                  /\ UNCHANGED <<got, exported, info>>
             [] op.kind = "removeItem" ->
                  \* lines 108-113
                  /\ Finish(IF ok THEN Fulfilled
                            ELSE Rejected(PlainError("Failed to remove item")))
                  /\ IF ok THEN /\ store' = DeleteIn(store, op.key)
                                /\ Interrupts
                           ELSE UNCHANGED <<store, rt, snap>>
                  /\ UNCHANGED <<got, exported, info>>
             [] op.kind = "clearAll" ->
                  \* lines 122-127
                  /\ Finish(IF ok THEN Fulfilled
                            ELSE Rejected(PlainError("Failed to clear storage")))
                  /\ IF ok THEN /\ store' = <<>>
                                /\ IF rt = "exported"
                                     THEN rt' = "cleared" /\ UNCHANGED snap
                                     ELSE Interrupts
                           ELSE UNCHANGED <<store, rt, snap>>
                  /\ UNCHANGED <<got, exported, info>>
             [] op.kind = "batchUpdate" ->
                  \* lines 301-331
                  /\ Finish(IF BatchRaises(opBatch, engine)
                              THEN Rejected(PlainError("Failed to perform batch update"))
                              ELSE Fulfilled)
                  /\ store' = BatchTable(store, opBatch, engine)
                  /\ IF BatchRaises(opBatch, engine) THEN UNCHANGED <<rt, snap>>
                                                     ELSE Interrupts
                  /\ UNCHANGED <<got, exported, info>>
             [] op.kind = "exportAll" ->
                  \* lines 378-390
                  /\ Finish(IF ok THEN Fulfilled
                            ELSE Rejected(PlainError("Failed to export data")))
                  /\ IF ok THEN /\ exported' = ExportResult(<<>>, toArray(store))
                                /\ rt' = "exported"
                                /\ snap' = store
                           ELSE UNCHANGED <<exported, rt, snap>>
                  /\ UNCHANGED <<store, got, info>>
             [] op.kind = "importAll" ->
                  \* lines 399-410
                  /\ Finish(IF ok THEN Fulfilled
                            ELSE Rejected(PlainError("Failed to import data")))
                  /\ IF ok THEN /\ store' = bulkPut(store, ImportRecords(opData))
                                /\ IF rt = "cleared"
                                     THEN rt' = "imported" /\ UNCHANGED snap
                                     ELSE Interrupts
                           ELSE UNCHANGED <<store, rt, snap>>
                  /\ UNCHANGED <<got, exported, info>>
             [] op.kind = "getStorageInfo" ->
                  \* lines 344-369: count, the last record by timestamp, toArray;
                  \* the catch returns the zeros
                  /\ IF ~ok
                       THEN /\ Finish(Fulfilled)
                            /\ info' = Zeros
                       ELSE CASE op.pc = "io" ->
                                   /\ info' = [info EXCEPT !.itemCount = count(store)]
                                   /\ op' = [op EXCEPT !.pc = "last"]
                                   /\ ioQueue' = Append(Tail(ioQueue), Client)
                                   /\ UNCHANGED opResult
                              [] op.pc = "last" ->
                                   /\ info' = [info EXCEPT !.lastUpdated =
                                                             LastUpdated(store)]
                                   /\ op' = [op EXCEPT !.pc = "all"]
                                   /\ ioQueue' = Append(Tail(ioQueue), Client)
                                   /\ UNCHANGED opResult
                              [] op.pc = "all" ->
                                   /\ info' = [info EXCEPT !.estimatedSize =
                                                 EstimatedSize(toArray(store))]
                                   /\ Finish(Fulfilled)
                  /\ UNCHANGED <<store, got, exported, rt, snap>>
  /\ keyLocks' = LocksAfterPlain(op.key)
  /\ UNCHANGED <<dbOpened, initWaiters, microtasks, initStore, opBatch, opData,
                 opsDone, atomic>>

\* ------------------------------------------------------- specification
Next ==
  \/ OpenSettles
  \/ \E t \in Calls, k \in Keys, f \in UpdateFns : atomicUpdate(t, k, f)
  \/ RunMicrotask
  \/ \E t \in Calls : RetryLoopStep(t)
  \/ \E t \in Calls : SimpleGet(t)
  \/ \E t \in Calls : SimplePut(t)

Spec == Init /\ [][Next]_vars

\* the event loop runs every queued microtask, the backing store answers every
\* request and every timer fires
Fairness ==
  /\ WF_vars(OpenSettles)
  /\ WF_vars(RunMicrotask)
  /\ \A t \in Calls : /\ WF_vars(RetryLoopStep(t))
                      /\ WF_vars(SimpleGet(t))
                      /\ WF_vars(SimplePut(t))

FairSpec == Spec /\ Fairness

\* the plain operations alone, called one after the other; the table may hold
\* any records at construction
InitFacade ==
  /\ \E present \in SUBSET PlainKeys : store \in [present -> {"1"}]
  /\ InitRest

NextFacade ==
  \/ OpenSettles
  \/ \E k \in PlainKeys : getItem(k)
  \/ \E k \in PlainKeys, v \in PlainValues : setItem(k, v)
  \/ \E k \in PlainKeys : removeItem(k)
  \/ clearAll
  \/ \E operations \in Batches : batchUpdate(operations)
  \/ getStorageInfo
  \/ exportAll
  \/ importAll(exported)
  \/ PlainMicrotask
  \/ PlainRequest

SpecFacade == InitFacade /\ [][NextFacade]_vars

\* calls of atomicUpdate with plain operations made while they run
NextMixed ==
  \/ OpenSettles
  \/ \E t \in 1..MixedCalls, k \in Keys, f \in UpdateFns : atomicUpdate(t, k, f)
  \/ RunMicrotask
  \/ \E t \in Calls : RetryLoopStep(t)
  \/ \E t \in Calls : SimpleGet(t)
  \/ \E t \in Calls : SimplePut(t)
  \/ opsDone < MixedOps /\ \E k \in Keys : getItem(k)
  \/ opsDone < MixedOps /\ \E k \in Keys, v \in PlainValues : setItem(k, v)
  \/ opsDone < MixedOps /\ \E k \in Keys : removeItem(k)
  \/ opsDone < MixedOps /\ clearAll
  \/ opsDone < MixedOps /\ \E operations \in Batches : batchUpdate(operations)
  \/ opsDone < MixedOps /\ getStorageInfo
  \/ opsDone < MixedOps /\ exportAll
  \/ opsDone < MixedOps /\ importAll(exported)
  \/ PlainMicrotask
  \/ PlainRequest

SpecMixed == Init /\ [][NextMixed]_vars

TypeOK ==
  /\ dbOpened \in {"pending", "fulfilled", "rejected"}
  /\ DOMAIN store \subseteq PlainKeys
  /\ \A k \in DOMAIN store :
       store[k] \in InitValues \cup PlainValues \/ JSONparses(store[k])
  /\ op.pc \in {"idle", "init", "io", "last", "all", "done"}
  /\ opsDone \in 0..MaxOps
  /\ rt \in {"none", "exported", "cleared", "imported"}
  /\ \A t \in Calls :
       pc[t] \in {"idle", "init", "lockwait", "settled", "done"} \cup BodyStates

\* ================================================================ claims
AllDone == \A t \in Calls : pc[t] = "done"

Succeeded(t) == pc[t] = "done" /\ result[t].state = "fulfilled"

Failed(t) == pc[t] = "done" /\ result[t].state = "rejected"

InitRecord(k) == IF k \in DOMAIN initStore THEN <<initStore[k]>> ELSE <<>>

\* C1: at any instant at most one call per key is executing its update body
\* (a transactional attempt, a backoff wait or the fallback simple update).
C1_MutualExclusion ==
  \A k \in Keys : Cardinality({t \in Calls : pc[t] \in BodyStates /\ key[t] = k}) <= 1

\* the record of key k after the calls of seq, in that order, each applied its
\* updateFn to the record left by the one before
RECURSIVE FoldApplied(_, _, _)
FoldApplied(seq, k, rec) ==
  IF seq = <<>> THEN rec
  ELSE IF key[Head(seq)] # k THEN FoldApplied(Tail(seq), k, rec)
  ELSE FoldApplied(Tail(seq), k,
         <<JSONstringify(UpdateFn(fn[Head(seq)], CurrentValue(rec)))>>)

\* C2: once all calls have completed, the calls whose write reached the table
\* are the ones that reported success, and the record of every key is the fold,
\* over its initial record, of their updateFns in the order of their writes.
C2_NoLostUpdate ==
  AllDone =>
    /\ \A t \in Calls : Succeeded(t) <=> \E i \in 1..Len(applied) : applied[i] = t
    /\ \A k \in Keys : TableGet(k) = FoldApplied(applied, k, InitRecord(k))

\* C3: a call that waited for an entry whose operation failed still installs
\* its own entry and runs its own body, and an error it raises is its own.
C3_FailureDoesNotPoison ==
  \A t \in Calls :
    (pc[t] = "done" /\ awaited[t] # NoLock
       /\ lockPromise[awaited[t]].state = "rejected")
      => /\ lockPromise[t].state # "unmade"
         /\ result[t].state = "rejected" => result[t].reason.call = t

\* an attempt's transaction failed in this step
AttemptFailed(t) == lastError'[t] # lastError[t]

\* C4: a transactional attempt below maxRetries that fails with a
\* PrematureCommitError is followed by a wait of min(100 * 2^(attempt-1), 1000)
\* ms, and no next attempt starts without that wait.
C4_BackoffBeforeRetry ==
  [][\A t \in Calls :
       /\ (AttemptFailed(t) /\ txnError'[t] = "PrematureCommitError"
             /\ attempt[t] < maxRetries)
            => (pc'[t] = "backoff" /\ timer'[t] = Min(100 * Pow(2, attempt[t] - 1), 1000))
       /\ (attempt[t] >= 1 /\ attempt'[t] = attempt[t] + 1
             /\ txnError'[t] = "PrematureCommitError")
            => pc[t] = "backoff"]_vars

\* C5: a transactional attempt that fails with anything but a transient commit
\* conflict is followed by the simple update, whatever the attempt number.
C5_NonTransientToFallback ==
  [][\A t \in Calls :
       (AttemptFailed(t) /\ txnError'[t] # "PrematureCommitError")
         => pc'[t] = "sget"]_vars

\* the body of call t is over: its promise settled
BodyOver(t) == pc[t] \in {"settled", "done"}

WriteApplied(t) == \E i \in 1..Len(applied) : applied[i] = t

\* all maxRetries attempts of call t failed and its simple update wrote
FallbackSucceeded(t) ==
  lastError[t].call = t /\ lastError[t].attempt = maxRetries /\ WriteApplied(t)

\* all maxRetries attempts of call t failed and its simple update failed
FallbackFailed(t) ==
  BodyOver(t) /\ lastError[t].call = t /\ lastError[t].attempt = maxRetries
    /\ ~WriteApplied(t)

\* C6: when all maxRetries attempts failed and the simple update succeeded, the
\* call reports success and the record is serialize(f(v)), v the value the
\* simple update read; from an absent record, x => (x ?? 0) + 1 leaves "1".
C6_DegradeToSimpleWrite ==
  \A t \in Calls :
    FallbackSucceeded(t) =>
      /\ BodyOver(t)
      /\ lockPromise[t].state = "fulfilled"
      /\ pc[t] = "done" => result[t].state = "fulfilled"
      /\ pc[t] = "settled" =>
           /\ TableGet(key[t]) =
                <<JSONstringify(UpdateFn(fn[t], CurrentValue(currentRecord[t])))>>
           /\ (currentRecord[t] = <<>> /\ fn[t] = "inc") => store[key[t]] = "1"

C6_Witness ==
  \E t \in Calls :
    /\ FallbackSucceeded(t) /\ pc[t] = "done" /\ result[t].state = "fulfilled"
    /\ currentRecord[t] = <<>> /\ store[key[t]] = "1"

\* C7: when the attempts failed and the simple update failed too, the call
\* raises the error of its last transactional attempt, not the fallback's, and
\* its lock entry is gone when it returns.
C7_Exhaustion ==
  \A t \in Calls :
    FallbackFailed(t) =>
      /\ lockPromise[t].state = "rejected"
      /\ lockPromise[t].reason.call = t
      /\ lockPromise[t].reason.attempt = maxRetries
      /\ lockPromise[t].reason.message \in
           {"Database transaction error", "Failed to perform atomic update"}
      /\ pc[t] = "done" => (result[t] = lockPromise[t] /\ keyLocks[key[t]] # t)

C7_Witness ==
  \E t \in Calls :
    /\ FallbackFailed(t) /\ pc[t] = "done" /\ result[t].state = "rejected"
    /\ txnError[t] = "PrematureCommitError"
    /\ result[t].reason.message = "Database transaction error"

\* the update body of call t is in flight: started, and its entry not yet
\* released by its own finally
InFlight(t) == pc[t] \in BodyStates \cup {"settled"}

\* C8: the lock table has an entry for a key exactly when an update body for
\* the key is in flight, and the entry belongs to an operation in flight.
C8_LockTableInvariant ==
  \A k \in Keys :
    /\ keyLocks[k] # NoLock <=> \E t \in Calls : InFlight(t) /\ key[t] = k
    /\ keyLocks[k] # NoLock => (InFlight(keyLocks[k]) /\ key[keyLocks[k]] = k)

\* C9: of two successive successful calls on one key, the later of which
\* queued behind an in-flight update, the later one's updateFn reads what the
\* earlier one wrote, and their writes reach the table in the order of the calls.
C9_QueueOrder ==
  \A p, q \in Calls :
    (/\ p < q /\ key[p] = key[q] /\ Succeeded(p) /\ Succeeded(q)
     /\ awaited[q] # NoLock
     /\ ~\E r \in Calls : p < r /\ r < q /\ key[r] = key[p] /\ Succeeded(r))
      => currentRecord[q] = <<newValue[p]>>

\* C10: once every call that was made has completed, by success or by failure,
\* the lock table is empty; an entry never outlives the operation that set it.
C10_NoLockLeak ==
  /\ (\A t \in Calls : pc[t] \in {"idle", "done"}) => \A k \in Keys : keyLocks[k] = NoLock
  /\ \A k \in Keys : keyLocks[k] # NoLock => InFlight(keyLocks[k])

C10_Witness ==
  /\ AllDone
  /\ \A k \in Keys : keyLocks[k] = NoLock
  /\ \E t \in Calls : Failed(t) /\ fn[t] = "throw" /\ result[t].reason.call = t

\* C11: a call never waits on the entry of another key, and a call whose own
\* key has no entry takes the lock and starts its attempts, whatever is in
\* flight on other keys.
C11_KeyIndependence ==
  [][\A t \in Calls :
       /\ awaited'[t] # NoLock => key'[awaited'[t]] = key'[t]
       /\ (pc[t] = "init" /\ pc'[t] # "init" /\ dbOpened = "fulfilled"
             /\ keyLocks[key[t]] = NoLock)
            => (pc'[t] = "txn" /\ keyLocks'[key[t]] = t /\ awaited'[t] = NoLock)]_vars

C11_Witness ==
  \E t1, t2 \in Calls :
    /\ key[t1] # key[t2] /\ t2 < t1
    /\ pc[t2] \in BodyStates /\ keyLocks[key[t2]] = t2
    /\ pc[t1] = "txn" /\ attempt[t1] >= 2 /\ keyLocks[key[t1]] = t1
    /\ awaited[t1] = NoLock

\* C19: the update function is given null exactly when the key holds no
\* record, in a transactional attempt and in the simple update alike.
C19_NullIffAbsent ==
  \A t \in Calls :
    (pc[t] = "sput" \/ WriteApplied(t))
      => (CurrentValue(currentRecord[t]) = Null <=> currentRecord[t] = <<>>)

\* C18: an attempt that fails leaves the store as it was, and a call that
\* reports failure has written nothing.
C18_NoPartialWrite ==
  [][/\ \A t \in Calls : AttemptFailed(t) => store' = store
     /\ \A t \in Calls : Failed(t)' => ~WriteApplied(t)']_vars

C18_Witness ==
  \E t \in Calls :
    /\ Failed(t) /\ FallbackFailed(t)
    /\ lastError[t].attempt = maxRetries
    /\ initStore # <<>> /\ store = initStore

\* C17: a call makes at most maxRetries transactional attempts and at most
\* one simple update, the latter only after a transactional failure and never
\* followed by another attempt (so the update function runs at most
\* maxRetries + 1 times); under fairness every call that was made returns,
\* the queued ones included.
C17_BoundedAndTerminates ==
  /\ [](\A t \in Calls :
          /\ attempt[t] <= maxRetries
          /\ pc[t] \in {"sget", "sput"}
               => (txnError[t] # "none" /\ lastError[t].call = t))
  /\ [][\A t \in Calls :
          /\ pc[t] \in {"sget", "sput"} => pc'[t] \in {"sget", "sput", "settled"}
          /\ pc[t] \in {"settled", "done"} => pc'[t] \in {"settled", "done"}
          /\ attempt'[t] \in {attempt[t], attempt[t] + 1}]_vars
  /\ \A t \in Calls : (pc[t] # "idle") ~> (pc[t] = "done")

C17_Witness ==
  \E t \in Calls :
    /\ awaited[t] # NoLock /\ pc[t] = "done"
    /\ attempt[t] = maxRetries /\ FallbackSucceeded(t)

\* ---- the plain operations
BatchDone == op.kind = "batchUpdate" /\ op.pc = "done"

\* the positions of the list that name key k, a set without a value left out
Touching(operations, k) ==
  {i \in 1..Len(operations) :
     /\ operations[i].key = k
     /\ operations[i].operation = "set" => operations[i].value # <<>>}

Last(S) == CHOOSE i \in S : \A j \in S : j <= i

\* C12: after a batch that succeeded, every key the list names is as its last
\* occurrence in the list says: absent after a remove, the set value after a
\* set.
C12_LastOccurrenceWins ==
  (BatchDone /\ opResult.state = "fulfilled")
    => \A k \in PlainKeys :
         LET S == Touching(opBatch, k)
         IN  S # {} =>
               IF opBatch[Last(S)].operation = "remove"
                 THEN GetIn(store, k) = <<>>
                 ELSE GetIn(store, k) = opBatch[Last(S)].value

SetsOf(operations, k) ==
  {operations[i].value : i \in {j \in Touching(operations, k) :
                                  operations[j].operation = "set"}}

RemovesOf(operations, k) ==
  {i \in Touching(operations, k) : operations[i].operation = "remove"}

\* C13: the step that ends a batch either raises 'Failed to perform batch
\* update' and leaves the table as it was, or succeeds with every set and
\* remove applied: a key only set holds a set value, a key only removed is
\* absent, a key set and removed is absent or holds a set value, a key the
\* list does not name is as it was.
C13_BatchAllOrNothing ==
  [][(op.kind = "batchUpdate" /\ op.pc = "io" /\ op'.pc = "done")
       => \/ /\ opResult' = Rejected(PlainError("Failed to perform batch update"))
             /\ store' = store
          \/ /\ opResult' = Fulfilled
             /\ \A k \in PlainKeys :
                  LET sets == SetsOf(opBatch, k)
                      removes == RemovesOf(opBatch, k)
                  IN  /\ (sets = {} /\ removes = {})
                           => GetIn(store', k) = GetIn(store, k)
                      /\ (sets # {} /\ removes = {}) => GetIn(store', k) \in sets
                      /\ (sets = {} /\ removes # {}) => GetIn(store', k) = <<>>
                      /\ (sets # {} /\ removes # {})
                           => GetIn(store', k) \in sets \cup {<<>>}]_vars

C13_Witness ==
  /\ BatchDone /\ opResult.state = "rejected"
  /\ updates(opBatch) # <<>> /\ deletions(opBatch) # <<>>
  /\ GetIn(store, "a") = <<"1">> /\ GetIn(store, "b") = <<"1">>

\* C14: getStorageInfo returns a result in every state, the state where the
\* open failed included.
C14_InfoNeverRaises ==
  (op.kind = "getStorageInfo" /\ op.pc = "done") => opResult.state = "fulfilled"

\* C16: an export, a clear and an import of the exported mapping, with no
\* other write in between, leave the table with the keys and values the
\* export read.
C16_RoundTrip == rt = "imported" => store = snap

\* C15: once the open has failed, every call of atomicUpdate and of a plain
\* operation other than getStorageInfo fails with the error of the open; no
\* request is made to the table, no attempt or simple update is started (so
\* the update function is not invoked) and the lock table stays empty.
C15_InitFailureSticky ==
  dbOpened = "rejected" =>
    /\ ioQueue = <<>> /\ store = initStore /\ applied = <<>>
    /\ \A k \in Keys : keyLocks[k] = NoLock
    /\ \A t \in Calls :
         /\ pc[t] \in {"idle", "init", "done"}
         /\ attempt[t] = 0 /\ lockPromise[t] = Unmade
         /\ pc[t] = "done" => result[t] = Rejected(OpenError)
    /\ op.pc \in {"idle", "init", "done"}
    /\ (op.pc = "done" /\ op.kind # "getStorageInfo")
         => opResult = Rejected(OpenError)

C15_Witness ==
  /\ dbOpened = "rejected"
  /\ pc[1] = "done" /\ result[1] = Rejected(OpenError)
  /\ op.kind = "importAll" /\ op.pc = "done" /\ opResult = Rejected(OpenError)

PlainWrites == {"setItem", "removeItem", "clearAll"}

\* C20: no step of setItem, removeItem or clearAll changes the lock table or
\* waits on it: once the open succeeded the operation makes its request
\* whatever the lock table holds, and the request, when it succeeds, takes
\* effect on the table.
C20_PlainWritesBypassLock ==
  [][(op'.kind \in PlainWrites /\ op' # op)
       => /\ keyLocks' = keyLocks /\ lockPromise' = lockPromise
          /\ reactions' = reactions /\ awaited' = awaited
          /\ (op.pc = "init" /\ dbOpened = "fulfilled")
               => (op'.pc = "io" /\ ioQueue' = Append(ioQueue, Client))
          /\ (op.pc = "io" /\ opResult' = Fulfilled)
               => CASE op.kind = "setItem" -> GetIn(store', op.key) = <<op.value>>
                    [] op.kind = "removeItem" -> GetIn(store', op.key) = <<>>
                    [] op.kind = "clearAll" -> store' = <<>>]_vars

\* a setItem on the key of a call landed between the read and the write of
\* the call's simple update and was overwritten
C20_Witness ==
  \E t \in Calls :
    /\ FallbackSucceeded(t)
    /\ op.kind = "setItem" /\ op.key = key[t] /\ op.pc = "done"
    /\ opResult = Fulfilled
    /\ currentRecord[t] # <<op.value>>
    /\ GetIn(store, key[t]) = <<newValue[t]>> /\ newValue[t] # op.value

====
